---- MODULE Spec2Model ----
(***************************************************************************)
(* Model of the headless speech-to-text worker                             *)
(* (src/src/dictate_app/speech_worker.py, src/src/dictate_app/config.py).  *)
(*                                                                         *)
(* The command loop of main() runs on the main thread; every start         *)
(* command launches one daemon thread running _run_session.  The only      *)
(* place where the main thread blocks inside a handler is thread.join      *)
(* (timeout=5.0) in _stop_session, so a start or stop handler is one step  *)
(* when the join returns at once and two steps (before / after the join)   *)
(* when it has to wait for a worker that is still running.                 *)
(*                                                                         *)
(* Strings that the code inspects (transcripts) are sequences of           *)
(* one-character strings, so that str.strip and "".join are computed.      *)
(***************************************************************************)
EXTENDS Integers, Sequences, FiniteSets, TLC

\* ---------------------------------------------------------------- bounds
MaxLines == 2          \* input lines read from stdin before end-of-stream
MaxResponses == 1      \* responses delivered by the engine over the whole run

\* ------------------------------------------------------------- constants
DefaultLanguage == "en-US"
Languages == {"en-US", "nl-NL"}
Absent == "<absent>"   \* a key that the JSON object does not carry
Unset == "<unset>"     \* a value that has not been computed yet
None == 0              \* Python's None for the session slot

\* A start launches one session: the sessions' identities, in creation order.
Sessions == 1..MaxLines

VARIABLES
    pc,               \* position of the main thread
    config_language,  \* config.language, the shared Config object's field
    stop_event,       \* main's stop_event: None or the session owning the Event
    session_thread,   \* main's session_thread: None or the session's thread
    cmd_language,     \* cmd.get("language") of the start whose join is pending
    flag,             \* flag[s]: the threading.Event of session s is set
    thread,           \* thread[s]: position of the worker thread of session s
    stream,           \* stream[s]: the PyAudio stream of session s is open
    lang,             \* lang[s]: language_code of the RecognitionConfig of s
    reqLang,          \* reqLang[s]: "language" of the start that created s
    failure,          \* failure[s]: which collaborator failed in session s
    events,           \* the events written to stdout, in order
    nread,            \* number of input lines read
    nsess,            \* number of sessions created
    nstop,            \* number of stop commands read
    nresp,            \* number of engine responses delivered
    line,             \* the input line read last
    produced,         \* produced[s]: the responses the engine delivered to s
    audio_queue,      \* audio_queue[s]: the queue.Queue of session s
    callback,         \* callback[s]: where the PyAudio callback of s stands
    generator,        \* generator[s]: where _audio_generator of s stands
    put_after_stop,   \* put_after_stop[s]: a chunk was put with flag[s] set
    empty_after_stop, \* empty_after_stop[s]: a get timed out with flag[s] set
    stdout,           \* the writes sys.stdout has received, in order
    todo              \* todo[t]: the writes thread t has still to do in _emit

vars == <<pc, config_language, stop_event, session_thread, cmd_language, flag,
          thread, stream, lang, reqLang, failure, events, nread, nsess, nstop,
          nresp, line, produced, audio_queue, callback, generator,
          put_after_stop, empty_after_stop, stdout,
          todo>>

\* ------------------------------------------------------------ strings
Whitespace == {" ", "\n"}

RECURSIVE lstrip(_)
lstrip(t) ==
    IF t # <<>> /\ Head(t) \in Whitespace THEN lstrip(Tail(t)) ELSE t

RECURSIVE rstrip(_)
rstrip(t) ==
    IF t # <<>> /\ t[Len(t)] \in Whitespace
    THEN rstrip(SubSeq(t, 1, Len(t) - 1))
    ELSE t

\* str.strip()
strip(t) == rstrip(lstrip(t))

\* "".join(parts)
RECURSIVE join(_)
join(parts) ==
    IF parts = <<>> THEN <<>> ELSE Head(parts) \o join(Tail(parts))

\* ------------------------------------------------------------ events
Event(type, sid, text) == [type |-> type, sid |-> sid, text |-> text]

\* _emit(event): the event is appended to stdout
_emit(out, event) == Append(out, event)


Ready == Event("ready", None, <<>>)
Stopped(sid) == Event("stopped", sid, <<>>)
Final(sid, text) == Event("final", sid, text)
Interim(sid, text) == Event("interim", sid, text)
Error(sid, message) == Event("error", sid, message)

\* ------------------------------------------------------- engine results
Alt(transcript, confidence) ==
    [transcript |-> transcript, confidence |-> confidence]
Result(alternatives, is_final) ==
    [alternatives |-> alternatives, is_final |-> is_final]

Transcripts == {<<>>, <<" ">>, <<" ", "a", " ">>}

\* The responses the engine may deliver: one result with one alternative
\* (final or not), a result without alternatives, a non-final result followed
\* by a final one, and a final result whose second alternative has the
\* higher confidence.
Responses ==
    {<<Result(<<Alt(t, 1)>>, f)>> : t \in Transcripts, f \in BOOLEAN}
    \cup {<<Result(<<>>, TRUE)>>}
    \cup {<<Result(<<Alt(<<"a">>, 1)>>, FALSE),
            Result(<<Alt(<<"b">>, 1)>>, TRUE)>>}
    \cup {<<Result(<<Alt(<<"a">>, 1), Alt(<<"b">>, 2)>>, TRUE)>>}

\* str(e) of the exception raised by the engine
FailureMessage == <<"e">>

\* ------------------------------------------------------- worker threads
Alive == {"open", "recognize"}

IsAlive(s) == thread[s] \in Alive

\* Daemon threads do not survive the exit of the process.
KillDaemons == [s \in Sessions |-> IF IsAlive(s) THEN "killed" ELSE thread[s]]

\* ----------------------------------------------------------------- Init
Init ==
    /\ pc = "init"
    /\ config_language = DefaultLanguage
    /\ stop_event = None
    /\ session_thread = None
    /\ cmd_language = Absent
    /\ flag = [s \in Sessions |-> FALSE]
    /\ thread = [s \in Sessions |-> "new"]
    /\ stream = [s \in Sessions |-> FALSE]
    /\ lang = [s \in Sessions |-> Unset]
    /\ reqLang = [s \in Sessions |-> Unset]
    /\ failure = [s \in Sessions |-> "none"]
    /\ events = <<>>
    /\ nread = 0
    /\ nsess = 0
    /\ nstop = 0
    /\ nresp = 0
    /\ line = [text |-> <<>>, parse |-> Absent, kind |-> Absent,
               type |-> Absent, language |-> Absent]
    /\ produced = [s \in Sessions |-> <<>>]
    /\ audio_queue = [s \in Sessions |-> <<>>]
    /\ callback = [s \in Sessions |-> "idle"]
    /\ generator = [s \in Sessions |-> "new"]
    /\ put_after_stop = [s \in Sessions |-> FALSE]
    /\ empty_after_stop = [s \in Sessions |-> FALSE]
    /\ stdout = <<>>
    /\ todo = [t \in {None} \cup Sessions |-> <<>>]

\* Mutant of Startup: the ready event is not written.
Startup_NoReady ==
    /\ pc = "init"
    /\ pc' = "read"
    /\ UNCHANGED <<config_language, stop_event, session_thread, cmd_language,
                   flag, thread, stream, lang, reqLang, failure, events, nread,
                   nsess, nstop, nresp>>

\* ------------------------------------------------------- main: startup
\* Config(), pyaudio.PyAudio(), speech.SpeechClient(), _emit(ready)
Startup ==
    /\ pc = "init"
    /\ pc' = "read"
    /\ events' = _emit(events, Ready)
    /\ UNCHANGED <<config_language, stop_event, session_thread, cmd_language,
                   flag, thread, stream, lang, reqLang, failure, nread, nsess,
                   nstop, nresp>>

\* Config.__post_init__ raises when no GCP project can be determined: the
\* process ends before anything is written.
StartupFails ==
    /\ pc = "init"
    /\ pc' = "fatal"
    /\ UNCHANGED <<config_language, stop_event, session_thread, cmd_language,
                   flag, thread, stream, lang, reqLang, failure, events, nread,
                   nsess, nstop, nresp>>

\* ---------------------------------------------------- main: command loop
\* `for line in sys.stdin` yields another line
ReadsLine ==
    /\ pc = "read"
    /\ nread < MaxLines
    /\ nread' = nread + 1

\* `if not line: continue`
BlankLine ==
    /\ ReadsLine
    /\ UNCHANGED <<pc, config_language, stop_event, session_thread,
                   cmd_language, flag, thread, stream, lang, reqLang, failure,
                   events, nsess, nstop, nresp>>

\* `except json.JSONDecodeError: ... continue`
InvalidJSON ==
    /\ ReadsLine
    /\ UNCHANGED <<pc, config_language, stop_event, session_thread,
                   cmd_language, flag, thread, stream, lang, reqLang, failure,
                   events, nsess, nstop, nresp>>

\* json.loads returned a value that is not an object (a number, a string, a
\* list, null): cmd.get raises AttributeError, which nothing catches, and the
\* process ends with its daemon threads.
NonObjectJSON ==
    /\ ReadsLine
    /\ pc' = "crashed"
    /\ thread' = KillDaemons
    /\ UNCHANGED <<config_language, stop_event, session_thread, cmd_language,
                   flag, stream, lang, reqLang, failure, events, nsess, nstop, nresp>>

\* json.loads raises RecursionError (a line nesting more than a thousand
\* arrays or objects), which is no JSONDecodeError: nothing catches it, and the
\* process ends with its daemon threads.
DeepJSON ==
    /\ ReadsLine
    /\ pc' = "crashed"
    /\ thread' = KillDaemons
    /\ UNCHANGED <<config_language, stop_event, session_thread, cmd_language,
                   flag, stream, lang, reqLang, failure, events, nsess, nstop,
                   nresp>>

\* Mutant of OtherCommand: a command that matches no branch is answered with
\* an error event.
OtherCommand_ReportsError(cmd_type) ==
    /\ ReadsLine
    /\ cmd_type \notin {"start", "stop"}
    /\ events' = _emit(events, [type |-> "error", sid |-> None,
                                text |-> <<"u">>])
    /\ UNCHANGED <<pc, config_language, stop_event, session_thread,
                   cmd_language, flag, thread, stream, lang, reqLang, failure,
                   nsess, nstop, nresp>>

\* An object whose type is neither "start" nor "stop" (audio, anything else, or
\* no type at all) matches no branch.
OtherCommand(cmd_type) ==
    /\ ReadsLine
    /\ cmd_type \notin {"start", "stop"}
    /\ UNCHANGED <<pc, config_language, stop_event, session_thread,
                   cmd_language, flag, thread, stream, lang, reqLang, failure,
                   events, nsess, nstop, nresp>>

\* _stop_session(stop_event, None, session_thread), up to the join:
\* `if stop_event is not None: stop_event.set()`; audio_queue is None.
SignalStop ==
    IF stop_event # None THEN [flag EXCEPT ![stop_event] = TRUE] ELSE flag

\* thread.join(timeout=5.0) has to wait: there is a thread and it is running.
JoinBlocks == session_thread # None /\ IsAlive(session_thread)

\* Mutant of LaunchSession: the start branch acknowledges the stop of the
\* session it replaces with a stopped event.
LaunchSession_AcknowledgesStop(cmd_lang) ==
    LET language == IF cmd_lang = Absent THEN config_language ELSE cmd_lang
        s == nsess + 1
    IN  /\ config_language' = language
        /\ nsess' = s
        /\ stop_event' = s
        /\ session_thread' = s
        /\ thread' = [thread EXCEPT ![s] = "open"]
        /\ reqLang' = [reqLang EXCEPT ![s] = cmd_lang]
        /\ events' = IF stop_event # None
                     THEN _emit(events, [type |-> "stopped", sid |-> stop_event,
                                         text |-> <<>>])
                     ELSE events

\* The start branch after _stop_session: lines 188-197.
LaunchSession(cmd_lang) ==
    LET language == IF cmd_lang = Absent THEN config_language ELSE cmd_lang
        s == nsess + 1
    IN  /\ config_language' = language
        /\ nsess' = s
        /\ stop_event' = s
        /\ session_thread' = s
        /\ thread' = [thread EXCEPT ![s] = "open"]
        /\ reqLang' = [reqLang EXCEPT ![s] = cmd_lang]
        /\ UNCHANGED events

\* Mutant of AcknowledgeStop: the session slot is not cleared.
AcknowledgeStop_KeepsSlot ==
    /\ events' = _emit(events, [type |-> "stopped", sid |-> stop_event,
                                text |-> <<>>])
    /\ UNCHANGED <<stop_event, session_thread, config_language, nsess, thread,
                   reqLang>>

\* The stop branch after _stop_session: lines 201-203.
AcknowledgeStop ==
    /\ events' = _emit(events, Stopped(stop_event))
    /\ stop_event' = None
    /\ session_thread' = None
    /\ UNCHANGED <<config_language, nsess, thread, reqLang>>

\* {"type":"start"[,"language":...]}
StartCommand(cmd_lang) ==
    /\ ReadsLine
    /\ flag' = SignalStop
    /\ IF JoinBlocks
       THEN /\ pc' = "join_start"
            /\ cmd_language' = cmd_lang
            /\ UNCHANGED <<config_language, nsess, stop_event, session_thread,
                           thread, reqLang, events>>
       ELSE /\ LaunchSession(cmd_lang)
            /\ UNCHANGED <<pc, cmd_language>>
    /\ UNCHANGED <<stream, lang, failure, nstop, nresp>>

\* {"type":"stop"}
StopCommand ==
    /\ ReadsLine
    /\ flag' = SignalStop
    /\ nstop' = nstop + 1
    /\ IF JoinBlocks
       THEN /\ pc' = "join_stop"
            /\ UNCHANGED <<config_language, nsess, stop_event, session_thread,
                           thread, reqLang, events>>
       ELSE /\ AcknowledgeStop
            /\ UNCHANGED pc
    /\ UNCHANGED <<cmd_language, stream, lang, failure, nresp>>

\* thread.join(timeout=5.0) returns because the worker has finished.
JoinReturns == ~IsAlive(session_thread)

\* Mutant of JoinTimesOut: the join has no timeout.
JoinTimesOut_Never == FALSE

\* thread.join(timeout=5.0) returns after 5 seconds, the worker still running.
JoinTimesOut == IsAlive(session_thread)

StartAfterJoin ==
    /\ pc = "join_start"
    /\ JoinReturns
    /\ pc' = "read"
    /\ LaunchSession(cmd_language)
    /\ cmd_language' = Absent
    /\ UNCHANGED <<flag, stream, lang, failure, nread, nstop, nresp>>

StartAfterTimeout ==
    /\ pc = "join_start"
    /\ JoinTimesOut
    /\ pc' = "read"
    /\ LaunchSession(cmd_language)
    /\ cmd_language' = Absent
    /\ UNCHANGED <<flag, stream, lang, failure, nread, nstop, nresp>>

StopAfterJoin ==
    /\ pc = "join_stop"
    /\ JoinReturns
    /\ pc' = "read"
    /\ AcknowledgeStop
    /\ UNCHANGED <<cmd_language, flag, stream, lang, failure, nread, nstop, nresp>>

StopAfterTimeout ==
    /\ pc = "join_stop"
    /\ JoinTimesOut
    /\ pc' = "read"
    /\ AcknowledgeStop
    /\ UNCHANGED <<cmd_language, flag, stream, lang, failure, nread, nstop, nresp>>

\* End of stdin: the loop ends, pa.terminate() runs and main returns; the
\* session thread is a daemon thread and ends with the process.
EndOfInput ==
    /\ pc = "read"
    /\ pc' = "exited"
    /\ thread' = KillDaemons
    /\ UNCHANGED <<config_language, stop_event, session_thread, cmd_language,
                   flag, stream, lang, reqLang, failure, events, nread, nsess,
                   nstop, nresp>>

\* -------------------------------------------------- worker: _run_session
\* Lines 83-111, which precede the try of line 113, are one step of the
\* worker: pa.open(...) touches nothing another thread reads, and the step
\* takes place when speech.RecognitionConfig reads the shared config.language.

\* pa.open(...) raises: the exception ends the thread.
OpenMicFails(s) ==
    /\ thread[s] = "open"
    /\ failure' = [failure EXCEPT ![s] = "mic"]
    /\ thread' = [thread EXCEPT ![s] = "done"]
    /\ UNCHANGED <<pc, config_language, stop_event, session_thread,
                   cmd_language, flag, stream, lang, reqLang, events, nread,
                   nsess, nstop, nresp>>

\* pa.open(...) returns the open stream and building the configuration
\* raises: the exception ends the thread, and the finally of line 141, which
\* closes the stream, is not reached.
BuildConfigFails(s) ==
    /\ thread[s] = "open"
    /\ stream' = [stream EXCEPT ![s] = TRUE]
    /\ failure' = [failure EXCEPT ![s] = "config"]
    /\ thread' = [thread EXCEPT ![s] = "done"]
    /\ UNCHANGED <<pc, config_language, stop_event, session_thread,
                   cmd_language, flag, lang, reqLang, events, nread, nsess,
                   nstop, nresp>>

\* pa.open(...) returns the open stream; RecognitionConfig is built with
\* language_code=config.language, read from the shared Config object now; the
\* worker enters the try and calls client.streaming_recognize.
OpenSession(s) ==
    /\ thread[s] = "open"
    /\ stream' = [stream EXCEPT ![s] = TRUE]
    /\ lang' = [lang EXCEPT ![s] = config_language]
    /\ thread' = [thread EXCEPT ![s] = "recognize"]
    /\ UNCHANGED <<pc, config_language, stop_event, session_thread,
                   cmd_language, flag, reqLang, failure, events, nread, nsess,
                   nstop, nresp>>

\* Mutant of FinalEvents: the last alternative is taken, not the first.
RECURSIVE FinalEvents_LastAlternative(_, _)
FinalEvents_LastAlternative(s, results) ==
    IF results = <<>> THEN <<>>
    ELSE LET result == Head(results)
             rest == FinalEvents_LastAlternative(s, Tail(results))
         IN  IF result.alternatives = <<>> THEN rest
             ELSE LET n == Len(result.alternatives)
                      text == strip(result.alternatives[n].transcript)
                  IN  IF result.is_final /\ text # <<>>
                      THEN <<[type |-> "final", sid |-> s, text |-> text]>>
                           \o rest
                      ELSE rest

\* Lines 120-129: the final events of one response, in result order.
RECURSIVE FinalEvents(_, _)
FinalEvents(s, results) ==
    IF results = <<>> THEN <<>>
    ELSE LET result == Head(results)
             rest == FinalEvents(s, Tail(results))
         IN  IF result.alternatives = <<>> THEN rest
             ELSE LET transcript == result.alternatives[1].transcript
                      text == strip(transcript)
                  IN  IF result.is_final /\ text # <<>>
                      THEN <<Final(s, text)>> \o rest
                      ELSE rest

\* Lines 119-129: interim_parts of one response.
RECURSIVE InterimParts(_)
InterimParts(results) ==
    IF results = <<>> THEN <<>>
    ELSE LET result == Head(results)
             rest == InterimParts(Tail(results))
         IN  IF result.alternatives = <<>> \/ result.is_final THEN rest
             ELSE <<result.alternatives[1].transcript>> \o rest

\* Lines 131-138: the interim event of one response, if any.
InterimEvents(s, results) ==
    LET interim_parts == InterimParts(results)
        combined == join(interim_parts)
    IN  IF interim_parts # <<>> /\ combined # <<>>
        THEN <<Interim(s, combined)>>
        ELSE <<>>

\* Mutant of ResponseEvents: the interim event is written before the finals.
ResponseEvents_InterimFirst(s, response) ==
    InterimEvents(s, response) \o FinalEvents(s, response)

\* The body of `for response in responses` for one response.
ResponseEvents(s, response) ==
    FinalEvents(s, response) \o InterimEvents(s, response)

\* The engine delivers a response; nothing in the loop looks at stop_event.
Response(s, response) ==
    /\ thread[s] = "recognize"
    /\ nresp < MaxResponses
    /\ nresp' = nresp + 1
    /\ events' = events \o ResponseEvents(s, response)
    /\ UNCHANGED <<pc, config_language, stop_event, session_thread,
                   cmd_language, flag, thread, stream, lang, reqLang, failure,
                   nread, nsess, nstop>>

\* Lines 141-146: stream.stop_stream(); stream.close()
ReleaseStream(s) == [stream EXCEPT ![s] = FALSE]

\* streaming_recognize or the response iterator raises: lines 139-146.
EngineFails(s) ==
    /\ thread[s] = "recognize"
    /\ failure' = [failure EXCEPT ![s] = "engine"]
    /\ events' = _emit(events, Error(s, FailureMessage))
    /\ stream' = ReleaseStream(s)
    /\ thread' = [thread EXCEPT ![s] = "done"]
    /\ UNCHANGED <<pc, config_language, stop_event, session_thread,
                   cmd_language, flag, lang, reqLang, nread, nsess, nstop, nresp>>

\* The response stream ends: the loop ends and the finally releases the mic.
EndOfResponses(s) ==
    /\ thread[s] = "recognize"
    /\ stream' = ReleaseStream(s)
    /\ thread' = [thread EXCEPT ![s] = "done"]
    /\ UNCHANGED <<pc, config_language, stop_event, session_thread,
                   cmd_language, flag, lang, reqLang, failure, events, nread,
                   nsess, nstop, nresp>>

\* ------------------------------------------------------------ the system
CommandTypes == {"audio", "other", Absent}

\* The state the finer-grained specifications below add to this one.
audio == <<audio_queue, callback, generator, put_after_stop,
           empty_after_stop>>

writes == <<stdout, todo>>

aux == <<line, produced, audio, writes>>

Main ==
    \/ Startup /\ UNCHANGED aux
    \/ StartupFails /\ UNCHANGED aux
    \/ BlankLine /\ UNCHANGED aux
    \/ InvalidJSON /\ UNCHANGED aux
    \/ NonObjectJSON /\ UNCHANGED aux
    \/ DeepJSON /\ UNCHANGED aux
    \/ \E cmd_type \in CommandTypes : OtherCommand(cmd_type) /\ UNCHANGED aux
    \/ \E cmd_lang \in Languages \cup {Absent} :
          StartCommand(cmd_lang) /\ UNCHANGED aux
    \/ StopCommand /\ UNCHANGED aux
    \/ StartAfterJoin /\ UNCHANGED aux
    \/ StartAfterTimeout /\ UNCHANGED aux
    \/ StopAfterJoin /\ UNCHANGED aux
    \/ StopAfterTimeout /\ UNCHANGED aux
    \/ EndOfInput /\ UNCHANGED aux

Worker(s) ==
    \/ OpenMicFails(s) /\ UNCHANGED aux
    \/ BuildConfigFails(s) /\ UNCHANGED aux
    \/ OpenSession(s) /\ UNCHANGED aux
    \/ \E response \in Responses : Response(s, response) /\ UNCHANGED aux
    \/ EngineFails(s) /\ UNCHANGED aux
    \/ EndOfResponses(s) /\ UNCHANGED aux

Next == Main \/ \E s \in Sessions : Worker(s)

Spec == Init /\ [][Next]_vars

\* ------------------------------------------------- the lines of stdin
\* An input line: its text, what json.loads does with the stripped text
\* (returns a value, raises JSONDecodeError, raises RecursionError), whether
\* the value is an object, and the object's "type" and "language".
Line(text, parse, kind, type, language) ==
    [text |-> text, parse |-> parse, kind |-> kind, type |-> type,
     language |-> language]

Lines ==
    {Line(t, Absent, Absent, Absent, Absent) : t \in {<<"\n">>, <<" ", "\n">>}}
    \cup {Line(<<"x", "\n">>, p, Absent, Absent, Absent) :
            p \in {"JSONDecodeError", "RecursionError"}}
    \cup {Line(<<"x", "\n">>, "value", "other", Absent, Absent)}
    \cup {Line(<<"x", "\n">>, "value", "object", t, Absent) :
            t \in CommandTypes \cup {"stop"}}
    \cup {Line(<<"x", "\n">>, "value", "object", "start", l) :
            l \in Languages \cup {Absent}}

\* `line = line.strip()` ... `if not line`
IsBlank(l) == strip(l.text) = <<>>

\* json.loads(line) returns a value
Parses(l) == ~IsBlank(l) /\ l.parse = "value"

\* The value is one of the two commands main knows.
IsCommand(l) == Parses(l) /\ l.kind = "object" /\ l.type \in {"start", "stop"}

\* The body of the loop of main for the line l: lines 171-203.
Dispatch(l) ==
    IF IsBlank(l) THEN BlankLine
    ELSE IF l.parse = "JSONDecodeError" THEN InvalidJSON
    ELSE IF l.parse = "RecursionError" THEN DeepJSON
    ELSE IF l.kind # "object" THEN NonObjectJSON
    ELSE IF l.type = "start" THEN StartCommand(l.language)
    ELSE IF l.type = "stop" THEN StopCommand
    ELSE OtherCommand(l.type)

ReadLine(l) == line' = l /\ Dispatch(l) /\ UNCHANGED <<produced, audio, writes>>

\* The worker with its input lines: Spec, with the line read last recorded.
NextLines ==
    \/ \E l \in Lines : ReadLine(l)
    \/ Startup /\ UNCHANGED aux
    \/ StartupFails /\ UNCHANGED aux
    \/ StartAfterJoin /\ UNCHANGED aux
    \/ StartAfterTimeout /\ UNCHANGED aux
    \/ StopAfterJoin /\ UNCHANGED aux
    \/ StopAfterTimeout /\ UNCHANGED aux
    \/ EndOfInput /\ UNCHANGED aux
    \/ \E s \in Sessions : Worker(s)

SpecLines == Init /\ [][NextLines]_vars

\* ------------------------------------------- the response loop alone
MaxResults == 2        \* results in one response of the engine

AlternativeLists ==
    {<<>>,
     <<Alt(<<" ">>, 1)>>,
     <<Alt(<<" ", "a", " ">>, 1)>>,
     <<Alt(<<"a">>, 1), Alt(<<"b">>, 2)>>}

Results == {Result(al, f) : al \in AlternativeLists, f \in BOOLEAN}

\* Every response of at most MaxResults results.
AllResponses == UNION {[1..n -> Results] : n \in 0..MaxResults}

\* The engine delivers `response` to session s; what it delivered is recorded.
Deliver(s, response) ==
    /\ Response(s, response)
    /\ produced' = [produced EXCEPT ![s] = Append(@, response)]
    /\ UNCHANGED <<line, audio, writes>>

\* One session, started by the first command, and its response loop.
NextResponses ==
    \/ Startup /\ UNCHANGED aux
    \/ nsess = 0 /\ StartCommand(Absent) /\ UNCHANGED aux
    \/ OpenSession(1) /\ UNCHANGED aux
    \/ \E response \in AllResponses : Deliver(1, response)
    \/ EndOfResponses(1) /\ UNCHANGED aux

SpecResponses == Init /\ [][NextResponses]_vars

\* ------------------------------------- the microphone and the audio queue
MaxChunks == 2         \* chunks waiting in one audio queue

\* Python's None as in_data of the callback and as the sentinel of the queue
NoChunk == "<None>"

Chunk == "chunk"

base == <<pc, config_language, stop_event, session_thread, cmd_language, flag,
          thread, stream, lang, reqLang, failure, events, nread, nsess, nstop,
          nresp>>

\* Lines 87-116: the stream is open and calls the callback; the call of
\* client.streaming_recognize starts the thread that iterates the requests.
OpenAudio(s) ==
    /\ OpenSession(s)
    /\ generator' = [generator EXCEPT ![s] = "check"]
    /\ UNCHANGED <<line, produced, writes, audio_queue, callback, put_after_stop,
                   empty_after_stop>>

\* Lines 58-60 of the callback, on PortAudio's thread: the flag is read; with
\* the flag clear and data at hand, the callback goes on to lines 61-63.
CallbackCheck(s, in_data) ==
    /\ stream[s]
    /\ callback[s] = "idle"
    /\ IF flag[s]
       THEN callback' = [callback EXCEPT ![s] = "complete"]
       ELSE IF in_data = NoChunk
            THEN UNCHANGED callback
            ELSE /\ Len(audio_queue[s]) < MaxChunks
                 /\ callback' = [callback EXCEPT ![s] = "put"]
    /\ UNCHANGED <<base, line, produced, writes, audio_queue, generator,
                   put_after_stop,
                   empty_after_stop>>

\* Lines 61-64: audio_queue.put(in_data), then paContinue.
CallbackPut(s) ==
    /\ callback[s] = "put"
    /\ audio_queue' = [audio_queue EXCEPT ![s] = Append(@, Chunk)]
    /\ put_after_stop' = [put_after_stop EXCEPT ![s] = @ \/ flag[s]]
    /\ callback' = [callback EXCEPT ![s] = "idle"]
    /\ UNCHANGED <<base, line, produced, writes, generator, empty_after_stop>>

\* Line 70: while not stop_event.is_set().
GeneratorCheck(s) ==
    /\ generator[s] = "check"
    /\ generator' = [generator EXCEPT ![s] = IF flag[s] THEN "done" ELSE "get"]
    /\ UNCHANGED <<base, line, produced, writes, audio_queue, callback,
                   put_after_stop,
                   empty_after_stop>>

\* Lines 72, 75-77: get returns a chunk, which is yielded, or the sentinel.
GeneratorGet(s) ==
    /\ generator[s] = "get"
    /\ audio_queue[s] # <<>>
    /\ audio_queue' = [audio_queue EXCEPT ![s] = Tail(@)]
    /\ generator' = [generator EXCEPT ![s] =
                        IF Head(audio_queue[s]) = NoChunk THEN "done"
                        ELSE "yield"]
    /\ UNCHANGED <<base, line, produced, writes, callback, put_after_stop,
                   empty_after_stop>>

\* Mutant of GeneratorTimeout: get() without a timeout never raises Empty.
GeneratorTimeout_Never(s) == FALSE

\* Lines 72-74: get(timeout=0.5) raises queue.Empty; continue.
GeneratorTimeout(s) ==
    /\ generator[s] = "get"
    /\ audio_queue[s] = <<>>
    /\ generator' = [generator EXCEPT ![s] = "check"]
    /\ empty_after_stop' = [empty_after_stop EXCEPT ![s] = @ \/ flag[s]]
    /\ UNCHANGED <<base, line, produced, writes, audio_queue, callback,
                   put_after_stop>>

\* Line 111: the request iterator asks the generator for its next chunk.
GeneratorResume(s) ==
    /\ generator[s] = "yield"
    /\ generator' = [generator EXCEPT ![s] = "check"]
    /\ UNCHANGED <<base, line, produced, writes, audio_queue, callback,
                   put_after_stop,
                   empty_after_stop>>

Generator(s) ==
    \/ GeneratorCheck(s)
    \/ GeneratorGet(s)
    \/ GeneratorTimeout(s)
    \/ GeneratorResume(s)

\* One session, started by the first command, its callback and its generator,
\* and the stop commands.
NextAudio ==
    \/ Startup /\ UNCHANGED aux
    \/ nsess = 0 /\ StartCommand(Absent) /\ UNCHANGED aux
    \/ StopCommand /\ UNCHANGED aux
    \/ StopAfterJoin /\ UNCHANGED aux
    \/ StopAfterTimeout /\ UNCHANGED aux
    \/ \E s \in Sessions : OpenAudio(s)
    \/ \E s \in Sessions : EndOfResponses(s) /\ UNCHANGED aux
    \/ \E s \in Sessions : \E in_data \in {Chunk, NoChunk} :
          CallbackCheck(s, in_data)
    \/ \E s \in Sessions : CallbackPut(s)
    \/ \E s \in Sessions : Generator(s)

SpecAudio == Init /\ [][NextAudio]_vars

\* The thread that iterates the requests is scheduled again and again.
FairSpecAudio == SpecAudio /\ \A s \in Sessions : WF_vars(Generator(s))

\* ------------------------------------------------- the writes of _emit
\* The threads that write to sys.stdout: the command loop and the workers.
Threads == {None} \cup Sessions

\* One write of thread t for event e: json.dump's text or the "\n".
Fragment(t, e, part) == [writer |-> t, event |-> e, part |-> part]

\* Lines 33-34 for each event of evs: the two writes of _emit, in order.
RECURSIVE _emit_writes(_, _)
_emit_writes(t, evs) ==
    IF evs = <<>> THEN <<>>
    ELSE <<Fragment(t, Head(evs), "body"), Fragment(t, Head(evs), "newline")>>
         \o _emit_writes(t, Tail(evs))

\* thread.join and is_alive see a thread as finished when its function has
\* returned, its last write included.
Returned == \A s \in Sessions : thread[s] = "done" => todo[s] = <<>>

\* Thread t, which has no write left to do, takes the step A; the events A
\* emits become the writes t has to do.
Step(t, A) ==
    /\ todo[t] = <<>>
    /\ A
    /\ todo' = [todo EXCEPT ![t] =
                   _emit_writes(t, SubSeq(events', Len(events) + 1,
                                          Len(events')))]
    /\ UNCHANGED <<stdout, line, produced, audio>>

\* Thread t does its next write: sys.stdout receives it.
Write(t) ==
    /\ todo[t] # <<>>
    /\ stdout' = Append(stdout, Head(todo[t]))
    /\ todo' = [todo EXCEPT ![t] = Tail(@)]
    /\ UNCHANGED <<base, line, produced, audio>>

\* One session, started by the first command, and the stop commands, every
\* event written in two writes.
NextWrites ==
    \/ Step(None, Startup)
    \/ Returned /\ Step(None, nsess = 0 /\ StartCommand(Absent))
    \/ Returned /\ Step(None, StopCommand)
    \/ Returned /\ Step(None, StopAfterJoin)
    \/ Returned /\ Step(None, StopAfterTimeout)
    \/ \E s \in Sessions : Step(s, OpenSession(s))
    \/ \E s \in Sessions : \E response \in Responses :
          Step(s, Response(s, response))
    \/ \E s \in Sessions : Step(s, EngineFails(s))
    \/ \E s \in Sessions : Step(s, EndOfResponses(s))
    \/ \E t \in Threads : Write(t)

SpecWrites == Init /\ [][NextWrites]_vars

\* ------------------------------------------------------------ helpers
SessionEventTypes == {"interim", "final", "error"}

Indices(out) == 1..Len(out)

Count(out, type) == Cardinality({i \in Indices(out) : out[i].type = type})

\* The step completes a stop command: its stop branch runs to the end.
StopCommandCompletes ==
    \/ nstop' = nstop + 1 /\ pc' = "read"
    \/ pc = "join_stop" /\ pc' = "read"

\* The step completes the implicit stop of a start that was received while the
\* session of the slot was running.
ImplicitStopCompletes == pc = "join_start" /\ pc' = "read"

\* ---------------------------------------------------------------- C1
\* C1: exactly one ready event is emitted; it is the first event, and no input
\* line is read before it. (A process whose startup fails reads and writes
\* nothing.)
C1_ReadyOnceAndFirst ==
    /\ pc \in {"init", "fatal"} => events = <<>> /\ nread = 0
    /\ pc \notin {"init", "fatal"} =>
        /\ events # <<>>
        /\ events[1] = Ready
        /\ Count(events, "ready") = 1

\* C1 witness: commands have been read and other events follow the ready.
C1_Witness ==
    /\ nread >= 2
    /\ Count(events, "stopped") >= 1
    /\ \E i \in Indices(events) : events[i].type \in SessionEventTypes

C3_NoEventAfterStopped ==
    \A i, j \in Indices(events) :
        (/\ i < j
         /\ events[i].type = "stopped"
         /\ events[i].sid # None
         /\ events[j].sid = events[i].sid)
        => events[j].type \notin SessionEventTypes

\* ---------------------------------------------------------------- C4
\* C4: when session s was launched by a start that stopped session s - 1
\* implicitly (s - 1 is signalled and no stop command acknowledged it), the
\* worker of s - 1 has finished when s emits its first event.
C4_PreviousFinishedBeforeFirstEvent ==
    [][\A s \in Sessions \ {1} :
         (/\ Len(events') > Len(events)
          /\ events'[Len(events')].sid = s
          /\ events'[Len(events')].type \in SessionEventTypes
          /\ flag[s - 1]
          /\ \A i \in Indices(events) : events[i] # Stopped(s - 1))
         => ~IsAlive(s - 1)]_vars

\* ---------------------------------------------------------------- C5
\* C5: at most one worker thread has started and not yet finished.
C5_AtMostOnePipelineAlive ==
    Cardinality({s \in Sessions : IsAlive(s)}) <= 1

\* ---------------------------------------------------------------- C6
\* C6: a session in which the microphone or the engine failed has emitted,
\* when its worker ends, exactly one error event, carrying the failure's
\* description, and that event is the last one of the session.
C6_OneErrorPerFailure ==
    \A s \in Sessions :
        (failure[s] \in {"mic", "engine"} /\ thread[s] = "done") =>
            LET mine == {i \in Indices(events) :
                           events[i].sid = s
                           /\ events[i].type \in SessionEventTypes}
                errors == {i \in mine : events[i].type = "error"}
            IN  /\ Cardinality(errors) = 1
                /\ \A i \in errors :
                     /\ events[i].text = FailureMessage
                     /\ \A j \in mine : j <= i

\* ---------------------------------------------------------------- C7
\* C7: a stop command read while no session is running (the slot is empty, or
\* its worker has ended) emits exactly one event, stopped, and leaves the
\* slot empty, in one step of the command loop.
C7_StopWithoutSession ==
    [][(nstop' = nstop + 1 /\ ~JoinBlocks) =>
         /\ Len(events') = Len(events) + 1
         /\ SubSeq(events', 1, Len(events)) = events
         /\ events'[Len(events')].type = "stopped"
         /\ stop_event' = None
         /\ session_thread' = None
         /\ pc' = "read"]_vars

\* C7 witness: a stop command was acknowledged while the slot was empty.
C7_Witness ==
    /\ pc = "read"
    /\ stop_event = None
    /\ session_thread = None
    /\ \E i \in Indices(events) : events[i] = Stopped(None)

\* ---------------------------------------------------------------- C8
\* C8: the engine configuration of a session carries the language of the
\* start command that created the session, or the default language fixed at
\* startup when that command carries none.
C8_LanguageOfOwnStart ==
    \A s \in Sessions :
        lang[s] # Unset =>
            lang[s] = IF reqLang[s] = Absent THEN DefaultLanguage
                      ELSE reqLang[s]

\* ---------------------------------------------------------------- C9
\* C9: when the process exits at end-of-stream, the session of the slot has
\* been signalled and its worker has ended (it was joined, not killed).
C9_SessionStoppedAtEndOfInput ==
    (pc = "exited" /\ session_thread # None) =>
        /\ flag[session_thread]
        /\ thread[session_thread] # "killed"

\* ---------------------------------------------------------------- C10
\* C10: the text of every final and of every interim event is non-empty after
\* stripping whitespace.
C10_TextNonEmptyAfterStrip ==
    \A i \in Indices(events) :
        events[i].type \in {"final", "interim"} => strip(events[i].text) # <<>>

\* ---------------------------------------------------------------- C11
\* The step reads a line.
Reads == nread' = nread + 1

\* The step leaves the session slot, the cancel flags and stdout alone and
\* the command loop goes on to the next line.
LineIgnored ==
    /\ events' = events
    /\ stop_event' = stop_event
    /\ session_thread' = session_thread
    /\ flag' = flag
    /\ pc' = "read"

\* C11: reading a blank line, or a line that json.loads does not parse, writes
\* no event, leaves the session slot and the cancel flags alone and does not
\* end the command loop.
C11_UnparseableLineIgnored ==
    [][(Reads /\ (IsBlank(line') \/ ~Parses(line'))) => LineIgnored]_vars

\* ---------------------------------------------------------------- C12
\* C12: an audio command read while no session is running (none was started,
\* it was stopped, or its worker has ended) writes no event, leaves the
\* session slot, the cancel flags and the workers alone, and the loop goes on.
C12_AudioDropped ==
    [][(Reads /\ Parses(line') /\ line'.kind = "object"
          /\ line'.type = "audio" /\ ~JoinBlocks)
         => LineIgnored /\ thread' = thread]_vars

\* C12 witness: an audio command has been read after a stop command.
C12_Witness ==
    /\ pc = "read"
    /\ line.type = "audio"
    /\ nstop >= 1
    /\ stop_event = None

\* ---------------------------------------------------------------- C13
\* C13: while a stop command waits in the join, the cancel flag of the slot's
\* session is already set, the stopped event is not written yet, and the join
\* can return, whether the worker has ended or not; stopped is written with
\* the slot cleared, so that every stopped event written for a session finds
\* that session signalled and out of the slot.
C13_StopOrder ==
    /\ pc = "join_stop" =>
        /\ stop_event # None
        /\ flag[stop_event]
        /\ Count(events, "stopped") = nstop - 1
        /\ ENABLED (StopAfterJoin \/ StopAfterTimeout)
    /\ pc # "join_stop" => Count(events, "stopped") = nstop
    /\ \A i \in Indices(events) :
         (events[i].type = "stopped" /\ events[i].sid # None) =>
             /\ flag[events[i].sid]
             /\ stop_event # events[i].sid
             /\ session_thread # events[i].sid

\* C13 witness: a stop command was acknowledged after its join had timed out:
\* the slot is empty and the stopped session's worker is still running.
C13_Witness ==
    /\ pc = "read"
    /\ stop_event = None
    /\ \E s \in Sessions :
         /\ IsAlive(s)
         /\ \E i \in Indices(events) : events[i] = Stopped(s)

\* ---------------------------------------------------------------- C14
\* The interim, final and error events of session s on stdout, in order.
SessionEvents(s) ==
    SelectSeq(events, LAMBDA e : e.sid = s /\ e.type \in SessionEventTypes)

\* The results of a response that give a final event: final, with an
\* alternative, whose first transcript is not blank.
FinalIndices(r) ==
    {i \in DOMAIN r : /\ r[i].is_final
                      /\ r[i].alternatives # <<>>
                      /\ strip(r[i].alternatives[1].transcript) # <<>>}

\* The results of a response that contribute to its interim event.
InterimIndices(r) ==
    {i \in DOMAIN r : ~r[i].is_final /\ r[i].alternatives # <<>>}

\* The indices of I between lo and hi, ascending.
RECURSIVE Ascending(_, _, _)
Ascending(I, lo, hi) ==
    IF lo > hi THEN <<>>
    ELSE (IF lo \in I THEN <<lo>> ELSE <<>>) \o Ascending(I, lo + 1, hi)

FinalsOf(s, r, lo, hi) ==
    LET idx == Ascending(FinalIndices(r), lo, hi)
    IN  [k \in 1..Len(idx) |->
           Final(s, strip(r[idx[k]].alternatives[1].transcript))]

InterimTextOf(r) ==
    LET idx == Ascending(InterimIndices(r), 1, Len(r))
    IN  join([k \in 1..Len(idx) |-> r[idx[k]].alternatives[1].transcript])

\* As claimed: the events of a response in the order of its results, the
\* interim event standing where the first non-final result stands.
InResultOrder(s, r) ==
    IF InterimTextOf(r) = <<>> THEN FinalsOf(s, r, 1, Len(r))
    ELSE LET first == CHOOSE j \in InterimIndices(r) :
                          \A k \in InterimIndices(r) : j <= k
         IN  FinalsOf(s, r, 1, first) \o <<Interim(s, InterimTextOf(r))>>
             \o FinalsOf(s, r, first + 1, Len(r))

\* As amended: the finals of a response in result order, then its interim.
FinalsThenInterim(s, r) ==
    FinalsOf(s, r, 1, Len(r))
    \o (IF InterimTextOf(r) = <<>> THEN <<>>
        ELSE <<Interim(s, InterimTextOf(r))>>)

RECURSIVE AllInResultOrder(_, _)
AllInResultOrder(s, rs) ==
    IF rs = <<>> THEN <<>>
    ELSE InResultOrder(s, Head(rs)) \o AllInResultOrder(s, Tail(rs))

RECURSIVE AllFinalsThenInterim(_, _)
AllFinalsThenInterim(s, rs) ==
    IF rs = <<>> THEN <<>>
    ELSE FinalsThenInterim(s, Head(rs)) \o AllFinalsThenInterim(s, Tail(rs))

C15_StreamReleasedOnExit ==
    \A s \in Sessions : thread[s] = "done" => ~stream[s]

\* ---------------------------------------------------------------- C16
\* The alternative of a result with the highest confidence.
Best(result) ==
    CHOOSE a \in {result.alternatives[i] : i \in DOMAIN result.alternatives} :
        \A i \in DOMAIN result.alternatives :
            result.alternatives[i].confidence <= a.confidence

\* The final results with an alternative, of all responses, in order.
RECURSIVE FinalResults(_)
FinalResults(rs) ==
    IF rs = <<>> THEN <<>>
    ELSE SelectSeq(Head(rs),
                   LAMBDA x : x.is_final /\ x.alternatives # <<>>)
         \o FinalResults(Tail(rs))

\* The texts of the final events of session s on stdout, in order.
FinalTexts(s) ==
    LET fin == SelectSeq(events, LAMBDA e : e.sid = s /\ e.type = "final")
    IN  [k \in 1..Len(fin) |-> fin[k].text]

\* C16 (as claimed): the final texts of a session are the stripped transcripts
\* of the highest-confidence alternatives of its final results, the blank
\* ones left out.
C16_FinalIsBestAlternative ==
    \A s \in Sessions :
        FinalTexts(s) =
            LET fr == FinalResults(produced[s])
                texts == [k \in 1..Len(fr) |-> strip(Best(fr[k]).transcript)]
            IN  SelectSeq(texts, LAMBDA t : t # <<>>)

\* C16 (amended): the final texts of a session are the stripped transcripts
\* of the first alternatives of its final results, the blank ones left out.
C16_FinalIsFirstAlternative ==
    \A s \in Sessions :
        FinalTexts(s) =
            LET fr == FinalResults(produced[s])
                texts == [k \in 1..Len(fr) |->
                            strip(fr[k].alternatives[1].transcript)]
            IN  SelectSeq(texts, LAMBDA t : t # <<>>)

\* C16 witness: a final result whose first alternative has not the highest
\* confidence has given a final event.
C16_Witness ==
    \E s \in Sessions : \E k \in Indices(produced[s]) :
        /\ Len(produced[s][k]) >= 1
        /\ produced[s][k][1].is_final
        /\ Len(produced[s][k][1].alternatives) = 2
        /\ FinalTexts(s) # <<>>

\* ---------------------------------------------------------------- C17
\* C17: no chunk is put into the audio queue of a session after the cancel
\* flag of that session has been set.
C17_NoPutAfterStop ==
    \A s \in Sessions : ~put_after_stop[s]

\* ---------------------------------------------------------------- C18
\* C18: once the cancel flag of a session is set, its audio generator
\* terminates, also when nothing more is put into the queue.
C18_GeneratorTerminates ==
    \A s \in Sessions :
        (flag[s] /\ generator[s] \in {"check", "get", "yield"})
            ~> generator[s] = "done"

\* C18 witness: a generator that found the queue empty after the flag was set,
\* and got nothing afterwards, has terminated.
C18_Witness ==
    \E s \in Sessions :
        /\ flag[s]
        /\ empty_after_stop[s]
        /\ ~put_after_stop[s]
        /\ audio_queue[s] = <<>>
        /\ generator[s] = "done"

\* ---------------------------------------------------------------- C19
\* C19: every line of the output is one whole event: the text of an event is
\* followed at once by the newline of the same event of the same thread, and
\* every newline ends such a text.
C19_WritesNotInterleaved ==
    \A i \in Indices(stdout) :
        /\ (stdout[i].part = "body" /\ i < Len(stdout)) =>
               stdout[i + 1] = Fragment(stdout[i].writer, stdout[i].event, "newline")
        /\ stdout[i].part = "newline" =>
               /\ i > 1
               /\ stdout[i - 1] = Fragment(stdout[i].writer, stdout[i].event, "body")

\* ---------------------------------------------------------------- C20
\* C20: reading a line that json.loads parses and that is no start or stop
\* command (an object of another or of no type, or no object at all) writes
\* no event, leaves the session slot and the cancel flags alone and does not
\* end the command loop.
C20_UnrecognisedValueIgnored ==
    [][(Reads /\ Parses(line') /\ ~IsCommand(line')) => LineIgnored]_vars

====
